---- MODULE Spec2Model ----
(***************************************************************************)
(* LightClear: the two desktop GUIs (speech_enhance_gui.py and             *)
(* speech_enhance_compare_gui_v2.py), their AudioEnhancementWorker thread, *)
(* the SNR metric of AudioAnalyzer and the demo_se.py script.              *)
(*                                                                         *)
(* Paths and file names are sequences of one-character strings, so that    *)
(* stem, suffix, dirname, basename and join are computed as the Python     *)
(* library computes them.  Label texts are written in ASCII; the Chinese   *)
(* text of the source is given beside each.                                *)
(***************************************************************************)
EXTENDS Integers, Sequences, FiniteSets, TLC

VARIABLES
    env,          \* what the file and directory dialogs of this session can return
    gui,          \* which program runs: "basic" (speech_enhance_gui.py) or "compare" (..._compare_gui_v2.py)
    ClearVoice,   \* the module global: "None" when the import at load time failed, else "class"
    window,       \* the SpeechEnhanceGUI instance: its fields and the widget states the handlers set
    modal,        \* the stack of open modal dialogs (nested event loops), innermost last
    workers,      \* every AudioEnhancementWorker created so far, by creation number
    queue,        \* signals emitted by worker threads and not yet handled by the GUI thread
    files,        \* the enhanced files on disk: output path -> the input path it was made from
    compared,     \* the pair start_comparison passed to set_audio_data last, <<>> before the first
    crashed,      \* the process was aborted (a running QThread was destroyed)
    last_finished, \* the output path carried by the finished_processing signal handled last, <<>> before the first
    snr,          \* the SNR harness: arguments and result of the AudioAnalyzer call
    demo          \* one execution of demo_se.py

vars == <<env, gui, ClearVoice, window, modal, workers, queue, files, compared,
          crashed, last_finished, snr, demo>>

(***************************************************************************)
(* Bounds of the model.                                                    *)
(***************************************************************************)
MaxRuns == 2     \* workers one session may start
MaxQueue == 3    \* queued signals the GUI thread may be behind with
MaxLen == 2      \* samples in an audio array of the SNR harness
MaxArgs == 2     \* command-line arguments given to demo_se.py
MaxLog == 3      \* lines of the log widget, in the sessions that keep the log

Max(S) == CHOOSE x \in S : \A y \in S : y <= x

Min(a, b) == IF a <= b THEN a ELSE b

(***************************************************************************)
(* Strings as sequences of characters.                                     *)
(***************************************************************************)
SEP == "/"

DOT == "."

\* the literal '_enhanced'
ENHANCED == <<"_", "e", "n", "h", "a", "n", "c", "e", "d">>

\* str.rfind, 1-based: the last position of c in s, 0 when there is none
RFind(s, c) ==
    LET I == {i \in 1..Len(s) : s[i] = c}
    IN  IF I = {} THEN 0 ELSE Max(I)

\* s[i:] of Python for a 0-based i, i.e. from the 1-based position i+1
From(s, i) == SubSeq(s, i + 1, Len(s))

\* s[:i] of Python
Upto(s, i) == SubSeq(s, 1, i)

\* str.rstrip('/')
RECURSIVE RStripSep(_)
RStripSep(s) ==
    IF s # <<>> /\ s[Len(s)] = SEP THEN RStripSep(Upto(s, Len(s) - 1)) ELSE s

\* posixpath.basename
Basename(p) == From(p, RFind(p, SEP))

\* posixpath.dirname
Dirname(p) ==
    LET head == Upto(p, RFind(p, SEP))
    IN  IF head # <<>> /\ (\E k \in 1..Len(head) : head[k] # SEP)
        THEN RStripSep(head)
        ELSE head

\* posixpath.join of two components
Join(a, b) ==
    IF b # <<>> /\ b[1] = SEP THEN b
    ELSE IF a = <<>> \/ a[Len(a)] = SEP THEN a \o b
    ELSE a \o <<SEP>> \o b

\* genericpath._splitext: the first position k (0-based) in fileStart..dot-1 holding
\* something else than a dot decides that the last dot starts an extension
Splitext(p) ==
    LET sepIndex == RFind(p, SEP) - 1
        dotIndex == RFind(p, DOT) - 1
    IN  IF dotIndex > sepIndex
           /\ \E k \in (sepIndex + 1)..(dotIndex - 1) : p[k + 1] # DOT
        THEN <<Upto(p, dotIndex), From(p, dotIndex)>>
        ELSE <<p, <<>> >>

\* pathlib: PurePath.name of a path without redundant separators
PathName(p) == From(p, RFind(p, SEP))

\* pathlib: PurePath.suffix (0 < i < len(name) - 1 for the 0-based i = name.rfind('.'))
PathSuffix(p) ==
    LET name == PathName(p)
        i == RFind(name, DOT) - 1
    IN  IF 0 < i /\ i < Len(name) - 1 THEN From(name, i) ELSE <<>>

\* pathlib: PurePath.stem
PathStem(p) ==
    LET name == PathName(p)
        i == RFind(name, DOT) - 1
    IN  IF 0 < i /\ i < Len(name) - 1 THEN Upto(name, i) ELSE name

\* pathlib: str(PurePath.parent): "/" for a file of the root, "." for a bare name
PathParent(p) ==
    LET s == RFind(p, SEP)
    IN  IF s = 0 THEN <<DOT>>
        ELSE IF s = 1 THEN <<SEP>>
        ELSE Upto(p, s - 1)

\* pathlib: str(parent / filename)
PathDiv(parent, filename) ==
    IF parent = <<DOT>> THEN filename
    ELSE IF parent[Len(parent)] = SEP THEN parent \o filename
    ELSE parent \o <<SEP>> \o filename

\* the output_dir of a worker created without one (None; '' is as falsy)
NoneDir == <<>>

\* WorkerOutputPath without the '_enhanced' in the file name
WorkerOutputPath_NoMarker(input_path, output_dir) ==
    LET output_filename == PathStem(input_path) \o PathSuffix(input_path)
    IN  IF output_dir # NoneDir
        THEN Join(output_dir, output_filename)
        ELSE PathDiv(PathParent(input_path), output_filename)

\* WorkerOutputPath with the chosen directory forgotten
WorkerOutputPath_IgnoresOutputDir(input_path, output_dir) ==
    PathDiv(PathParent(input_path),
            PathStem(input_path) \o ENHANCED \o PathSuffix(input_path))

\* AudioEnhancementWorker.run, "保存文件": the path the enhanced audio is written to
WorkerOutputPath(input_path, output_dir) ==
    LET output_filename == PathStem(input_path) \o ENHANCED \o PathSuffix(input_path)
    IN  IF output_dir # NoneDir
        THEN Join(output_dir, output_filename)
        ELSE PathDiv(PathParent(input_path), output_filename)

\* demo_se.py, lines 24-27
DemoOutputPath(input_path) ==
    LET input_dir == Dirname(input_path)
        input_filename == Basename(input_path)
        output_filename == Splitext(input_filename)[1] \o ENHANCED
                             \o Splitext(input_filename)[2]
    IN  Join(input_dir, output_filename)

(***************************************************************************)
(* Texts.  Labels and messages of the source, in ASCII.                    *)
(***************************************************************************)
ST_READY == "ready"                  \* "准备就绪"
ST_LOADING == "loading model"        \* "正在加载语音增强模型..."
ST_LOADED == "model loaded"          \* "模型加载完成，开始处理音频..."
ST_SAVING == "saving file"           \* "音频处理完成，正在保存文件..."
ST_DONE == "processing done"         \* "处理完成！"
ST_FAILED == "processing failed"     \* "处理失败"
ST_ANALYZING == "analyzing"          \* "正在分析音频..."
ST_COMPARED == "comparison done"     \* "对比分析完成"
ERR_IMPORT == "cannot import ClearVoice"   \* "无法导入ClearVoice模块: ..."
ERR_PROCESS == "error while processing"    \* "处理过程中发生错误: ..."
LOG_SELECTED_INPUT == "selected input file"      \* "已选择输入文件: ..."
LOG_SELECTED_DIR == "selected output directory"  \* "已选择输出目录: ..."
LOG_START == "start of enhancement"              \* "开始语音增强处理..."
LOG_INPUT == "input file"                        \* "输入文件: ..."
LOG_SAVED == "output file saved"                 \* "输出文件已保存: ..."
LOG_MODEL_TIME == "model load time"              \* "模型加载时间: ... 秒"
LOG_PROCESS_TIME == "process time"               \* "音频处理时间: ... 秒"
LOG_TOTAL_TIME == "total time"                   \* "总执行时间: ... 秒"
LOG_RULE == "=================================================="
LOG_HINT == "done, click compare"                \* "处理完成！点击 '对比分析' 按钮查看增强效果"
LOG_ERROR == "error"                             \* "错误: ..."
LOG_COMPARE_START == "loading audio to compare"  \* "开始加载音频数据进行对比分析..."
LOG_COMPARE_DONE == "comparison finished"        \* "对比分析完成！"

(***************************************************************************)
(* The inputs the environment may supply.                                  *)
(***************************************************************************)
\* the sessions of the model: in one the file dialog offers two audio files of the
\* same name and the directory dialog is only ever cancelled, in the other there
\* is one audio file and one directory to choose.  files is what
\* QFileDialog.getOpenFileName may return, dirs what QFileDialog.getExistingDirectory
\* may; both also return '' (cancelled)
Sessions ==
    { [files |-> { <<"/", "d", "/", "a", ".", "w">>, <<"/", "e", "/", "a", ".", "w">> },
       dirs |-> {}],
      [files |-> { <<"/", "d", "/", "a", ".", "w">> },
       dirs |-> { <<"/", "o">> }] }

\* input paths of the worker harness: plain, no suffix, hidden, trailing dot,
\* two dots, leading dots, file of the root, hidden with suffix
WorkerInputs ==
    { <<"/", "d", "/", "a", ".", "w">>,
      <<"/", "d", "/", "a">>,
      <<"/", "d", "/", ".", "h">>,
      <<"/", "d", "/", "a", ".">>,
      <<"/", "d", "/", "a", ".", "b", ".", "w">>,
      <<"/", "d", "/", ".", ".", "a">>,
      <<"/", "a", ".", "w">>,
      <<"/", "d", "/", ".", "h", ".", "w">> }

\* output directories of the worker harness
WorkerDirs == { <<"/", "o">>, <<"/">>, <<"/", "d">> }

(***************************************************************************)
(* AudioEnhancementWorker.                                                 *)
(***************************************************************************)
WorkerIds == 1..MaxRuns

\* one emitted signal; the fields a signal does not carry hold 0, "" and <<>>
Sig(i, sig, num, text, path) ==
    [w |-> i, sig |-> sig, num |-> num, text |-> text, path |-> path]

progress_updated(i, value) == Sig(i, "progress_updated", value, "", <<>>)

status_updated(i, status) == Sig(i, "status_updated", 0, status, <<>>)

finished_processing(i, output_path) == Sig(i, "finished_processing", 0, "", output_path)

error_occurred(i, message) == Sig(i, "error_occurred", 0, message, <<>>)

TerminalSignals == {"finished_processing", "error_occurred"}

\* an external call of run and how it ended, kept in the worker's trace only:
\* name is "ClearVoice", "cv_se" or "write"; path is write's output_path
Call(i, name, returned, path) ==
    Sig(i, IF returned THEN "returned" ELSE "raised", 0, name, path)

IsSignal(e) == e.sig \in {"progress_updated", "status_updated"} \cup TerminalSignals

\* a worker that was not created yet
Unborn ==
    [pc |-> "unborn", input_path |-> <<>>, output_dir |-> NoneDir,
     output_path |-> <<>>, trace |-> <<>>, handled |-> FALSE]

\* a worker whose terminal signal the GUI has handled: its run has ended and
\* nothing reads its fields again
Retired == [Unborn EXCEPT !.pc = "done", !.handled = TRUE]

\* AudioEnhancementWorker.__init__ followed by QThread.start
NewWorker(input_path, output_dir) ==
    [pc |-> "start", input_path |-> input_path, output_dir |-> output_dir,
     output_path |-> <<>>, trace |-> <<>>, handled |-> FALSE]

\* the thread of worker i is executing run
Running(i) == workers[i].pc \in {"start", "construct", "infer", "write"}

\* worker i goes through the events evs (external calls ending, signals emitted),
\* in order, and moves to pc; the signals are queued for the GUI thread, in the
\* order of emission (the connections cross threads, so they are queued)
Emit(i, pc, evs) ==
    /\ workers' = [workers EXCEPT ![i].pc = pc, ![i].trace = @ \o evs]
    /\ queue' = queue \o SelectSeq(evs, IsSignal)

\* a step of a thread emits at most three signals; the model lets a thread go on
\* only while the GUI thread is at most MaxQueue signals behind after the step
QueueHasRoom == Len(queue) + 3 <= MaxQueue

\* the rest of the state, which no worker step touches
WorkerFrame == UNCHANGED <<env, gui, window, modal, compared, crashed, last_finished, snr, demo>>

\* run, lines 49-61: the deferred import when the global is None, then the first
\* status and progress
RunImport(i) ==
    /\ ~crashed
    /\ workers[i].pc = "start"
    /\ QueueHasRoom
    /\ IF ClearVoice = "None"
       THEN \E import_ok \in BOOLEAN :
              IF import_ok
              THEN /\ ClearVoice' = "class"
                   /\ Emit(i, "construct",
                           <<status_updated(i, ST_LOADING), progress_updated(i, 20)>>)
              ELSE /\ UNCHANGED ClearVoice
                   /\ Emit(i, "done", <<error_occurred(i, ERR_IMPORT)>>)
       ELSE /\ UNCHANGED ClearVoice
            /\ Emit(i, "construct",
                    <<status_updated(i, ST_LOADING), progress_updated(i, 20)>>)
    /\ UNCHANGED files
    /\ WorkerFrame

\* RunConstruct with the progress of 50 emitted before ClearVoice(...) is called
RunConstruct_ProgressBeforeCall(i) ==
    /\ ~crashed
    /\ workers[i].pc = "construct"
    /\ QueueHasRoom
    /\ \E ok \in BOOLEAN :
         IF ok
         THEN Emit(i, "infer",
                   <<progress_updated(i, 50), Call(i, "ClearVoice", TRUE, <<>>),
                     status_updated(i, ST_LOADED)>>)
         ELSE Emit(i, "done",
                   <<progress_updated(i, 50), Call(i, "ClearVoice", FALSE, <<>>),
                     error_occurred(i, ERR_PROCESS)>>)
    /\ UNCHANGED <<ClearVoice, files>>
    /\ WorkerFrame

\* run, lines 64-71: ClearVoice(...) returns or raises
RunConstruct(i) ==
    /\ ~crashed
    /\ workers[i].pc = "construct"
    /\ QueueHasRoom
    /\ \E ok \in BOOLEAN :
         IF ok
         THEN Emit(i, "infer",
                   <<Call(i, "ClearVoice", TRUE, <<>>),
                     status_updated(i, ST_LOADED), progress_updated(i, 50)>>)
         ELSE Emit(i, "done",
                   <<Call(i, "ClearVoice", FALSE, <<>>), error_occurred(i, ERR_PROCESS)>>)
    /\ UNCHANGED <<ClearVoice, files>>
    /\ WorkerFrame

\* RunInfer with an except branch that emits nothing
RunInfer_SilentFailure(i) ==
    /\ ~crashed
    /\ workers[i].pc = "infer"
    /\ QueueHasRoom
    /\ \E ok \in BOOLEAN :
         IF ok
         THEN /\ workers' = [workers EXCEPT
                   ![i].pc = "write",
                   ![i].output_path = WorkerOutputPath(workers[i].input_path,
                                                       workers[i].output_dir),
                   ![i].trace = @ \o <<Call(i, "cv_se", TRUE, <<>>),
                                       status_updated(i, ST_SAVING),
                                       progress_updated(i, 80)>>]
              /\ queue' = queue \o <<status_updated(i, ST_SAVING), progress_updated(i, 80)>>
         ELSE Emit(i, "done", <<Call(i, "cv_se", FALSE, <<>>)>>)
    /\ UNCHANGED <<ClearVoice, files>>
    /\ WorkerFrame

\* run, lines 75-91: the inference returns or raises; then the output path
RunInfer(i) ==
    /\ ~crashed
    /\ workers[i].pc = "infer"
    /\ QueueHasRoom
    /\ \E ok \in BOOLEAN :
         IF ok
         THEN /\ workers' = [workers EXCEPT
                   ![i].pc = "write",
                   ![i].output_path = WorkerOutputPath(workers[i].input_path,
                                                       workers[i].output_dir),
                   ![i].trace = @ \o <<Call(i, "cv_se", TRUE, <<>>),
                                       status_updated(i, ST_SAVING),
                                       progress_updated(i, 80)>>]
              /\ queue' = queue \o <<status_updated(i, ST_SAVING), progress_updated(i, 80)>>
         ELSE Emit(i, "done",
                   <<Call(i, "cv_se", FALSE, <<>>), error_occurred(i, ERR_PROCESS)>>)
    /\ UNCHANGED <<ClearVoice, files>>
    /\ WorkerFrame

\* RunWrite with the last three signals emitted before write is called
RunWrite_SignalsBeforeWrite(i) ==
    /\ ~crashed
    /\ workers[i].pc = "write"
    /\ QueueHasRoom
    /\ \E ok \in BOOLEAN :
         IF ok
         THEN /\ files' = [p \in DOMAIN files \cup {workers[i].output_path} |->
                             IF p = workers[i].output_path
                             THEN workers[i].input_path
                             ELSE files[p]]
              /\ Emit(i, "done",
                      <<progress_updated(i, 100),
                        status_updated(i, ST_DONE),
                        finished_processing(i, workers[i].output_path),
                        Call(i, "write", TRUE, workers[i].output_path)>>)
         ELSE /\ UNCHANGED files
              /\ Emit(i, "done",
                      <<Call(i, "write", FALSE, workers[i].output_path),
                        error_occurred(i, ERR_PROCESS)>>)
    /\ UNCHANGED ClearVoice
    /\ WorkerFrame

\* run, lines 93-106: write returns or raises; then the last three signals
RunWrite(i) ==
    /\ ~crashed
    /\ workers[i].pc = "write"
    /\ QueueHasRoom
    /\ \E ok \in BOOLEAN :
         IF ok
         THEN /\ files' = [p \in DOMAIN files \cup {workers[i].output_path} |->
                             IF p = workers[i].output_path
                             THEN workers[i].input_path
                             ELSE files[p]]
              /\ Emit(i, "done",
                      <<Call(i, "write", TRUE, workers[i].output_path),
                        progress_updated(i, 100),
                        status_updated(i, ST_DONE),
                        finished_processing(i, workers[i].output_path)>>)
         ELSE /\ UNCHANGED files
              /\ Emit(i, "done",
                      <<Call(i, "write", FALSE, workers[i].output_path),
                        error_occurred(i, ERR_PROCESS)>>)
    /\ UNCHANGED ClearVoice
    /\ WorkerFrame

\* one step of the thread of worker i
Run(i) == RunImport(i) \/ RunConstruct(i) \/ RunInfer(i) \/ RunWrite(i)

(***************************************************************************)
(* SpeechEnhanceGUI.  A modal dialog runs a nested event loop: while it   *)
(* is open, queued worker signals are handled and the main window takes    *)
(* no clicks.  A message box is on the stack modal from its opening to     *)
(* its closing by the user.  A file or directory dialog changes nothing    *)
(* when it opens, so its handler is one action, taken when it returns.     *)
(***************************************************************************)
\* SpeechEnhanceGUI.__init__ and create_left_panel: worker_thread 0 is None; a new
\* QProgressBar holds -1
InitWindow ==
    [worker_thread |-> 0,
     input_file_path |-> <<>>,
     output_directory |-> <<>>,
     output_file_path |-> <<>>,
     process_btn |-> FALSE,
     compare_btn |-> FALSE,
     progress_visible |-> FALSE,
     progress_value |-> -1,
     stats_visible |-> FALSE,
     status_label |-> ST_READY]

\* the innermost open dialog, "" when there is none
TopModal == IF modal = <<>> THEN "" ELSE modal[Len(modal)]

PopModal == SubSeq(modal, 1, Len(modal) - 1)

\* one line of the log widget, without its time stamp: the text, and the message
\* or the path it quotes
LogLine(text, about, path) == [text |-> text, about |-> about, path |-> path]

\* log_message: appends one line.  The log is kept in the sessions whose window
\* starts with the field log (LogWindow); the other sessions leave the widget out
log_message(win, message) ==
    IF "log" \in DOMAIN win THEN [win EXCEPT !.log = Append(@, message)] ELSE win

\* clear_log
clear_log(win) == IF "log" \in DOMAIN win THEN [win EXCEPT !.log = <<>>] ELSE win

\* the log, where it is kept, has room for one more line
LogHasRoom == "log" \in DOMAIN window => Len(window.log) < MaxLog

\* the number of workers created so far
Created == Cardinality({i \in WorkerIds : workers[i].pc # "unborn"})

\* select_input_file with the button enabled also when the dialog was cancelled
select_input_file_EnablesOnCancel(win, file_path) ==
    IF file_path # <<>>
    THEN log_message([win EXCEPT !.input_file_path = file_path, !.process_btn = TRUE],
                     LogLine(LOG_SELECTED_INPUT, "", file_path))
    ELSE [win EXCEPT !.process_btn = TRUE]

\* select_input_file after the dialog returned file_path
select_input_file(win, file_path) ==
    IF file_path # <<>>
    THEN log_message([win EXCEPT !.input_file_path = file_path, !.process_btn = TRUE],
                     LogLine(LOG_SELECTED_INPUT, "", file_path))
    ELSE win

\* select_output_directory after the dialog returned dir_path; only the basic GUI
\* has the else branch that clears the directory
select_output_directory(win, dir_path) ==
    IF dir_path # <<>>
    THEN log_message([win EXCEPT !.output_directory = dir_path],
                     LogLine(LOG_SELECTED_DIR, "", dir_path))
    ELSE IF gui = "basic"
         THEN [win EXCEPT !.output_directory = <<>>]
         ELSE win

update_progress(win, value) == [win EXCEPT !.progress_value = value]

update_status(win, status) ==
    log_message([win EXCEPT !.status_label = status], LogLine(status, "", <<>>))

\* on_processing_finished with the assignment of output_file_path left out
on_processing_finished_PathNotStored(win, output_path) ==
    LET w == [win EXCEPT !.progress_visible = FALSE,
                         !.process_btn = TRUE,
                         !.status_label = ST_DONE,
                         !.stats_visible = TRUE]
    IN  IF gui = "compare" THEN [w EXCEPT !.compare_btn = TRUE] ELSE w

\* on_processing_finished up to its message box; output_file_path and compare_btn
\* exist in the comparison GUI only
on_processing_finished(win, output_path) ==
    LET w == [win EXCEPT !.progress_visible = FALSE,
                         !.process_btn = TRUE,
                         !.status_label = ST_DONE,
                         !.stats_visible = TRUE]
        saved == LogLine(LOG_SAVED, "", output_path)
    IN  IF gui = "compare"
        THEN log_message(log_message([w EXCEPT !.output_file_path = output_path,
                                               !.compare_btn = TRUE],
                                     saved),
                         LogLine(LOG_HINT, "", <<>>))
        ELSE log_message(log_message(log_message(log_message(log_message(w,
                 saved),
                 LogLine(LOG_MODEL_TIME, "", <<>>)),
                 LogLine(LOG_PROCESS_TIME, "", <<>>)),
                 LogLine(LOG_TOTAL_TIME, "", <<>>)),
                 LogLine(LOG_RULE, "", <<>>))

\* on_error_occurred up to its message box
on_error_occurred(win, error_message) ==
    log_message([win EXCEPT !.progress_visible = FALSE,
                            !.process_btn = TRUE,
                            !.status_label = ST_FAILED],
                LogLine(LOG_ERROR, error_message, <<>>))

\* start_processing past the check of input_file_path, with n the new worker
start_processing(win, n) ==
    LET w == log_message([win EXCEPT !.process_btn = FALSE,
                                     !.progress_visible = TRUE,
                                     !.progress_value = 0,
                                     !.stats_visible = FALSE,
                                     !.worker_thread = n],
                         LogLine(LOG_START, "", <<>>))
    IN  IF gui = "basic"
        THEN log_message(w, LogLine(LOG_INPUT, "", win.input_file_path))
        ELSE w

\* the state no GUI step touches
GuiFrame == UNCHANGED <<env, gui, ClearVoice, files, crashed, snr, demo>>

\* a click on the select-input button: the whole of select_input_file, at the
\* return of its file dialog with a path, or with '' when cancelled
SelectInputFile ==
    /\ ~crashed
    /\ modal = <<>>
    /\ \E file_path \in env.files \cup {<<>>} :
         /\ file_path # <<>> => LogHasRoom
         /\ window' = select_input_file(window, file_path)
    /\ UNCHANGED <<modal, workers, queue, compared, last_finished>>
    /\ GuiFrame

\* a click on the select-output button: the whole of select_output_directory, at
\* the return of its directory dialog with a path, or with '' when cancelled
SelectOutputDirectory ==
    /\ ~crashed
    /\ modal = <<>>
    /\ \E dir_path \in env.dirs \cup {<<>>} :
         /\ dir_path # <<>> => LogHasRoom
         /\ window' = select_output_directory(window, dir_path)
    /\ UNCHANGED <<modal, workers, queue, compared, last_finished>>
    /\ GuiFrame

\* StartProcessing with the check of input_file_path made after the widgets and
\* the log were touched
StartProcessing_ChecksLate ==
    IF window.input_file_path = <<>>
    THEN /\ modal' = Append(modal, "start_processing.warning")
         /\ window' = [start_processing(window, 0) EXCEPT !.worker_thread = window.worker_thread]
         /\ UNCHANGED workers
    ELSE /\ window' = start_processing(window, Created + 1)
         /\ workers' = [workers EXCEPT ![Created + 1] =
                          NewWorker(window.input_file_path,
                                    IF window.output_directory # <<>>
                                    THEN window.output_directory
                                    ELSE NoneDir)]
         /\ UNCHANGED modal

\* the whole of start_processing: the warning when no input is chosen, else the
\* widgets, a new worker that replaces worker_thread, and its start
StartProcessing ==
    IF window.input_file_path = <<>>
    THEN /\ modal' = Append(modal, "start_processing.warning")
         /\ UNCHANGED <<window, workers>>
    ELSE /\ window' = start_processing(window, Created + 1)
         /\ workers' = [workers EXCEPT ![Created + 1] =
                          NewWorker(window.input_file_path,
                                    IF window.output_directory # <<>>
                                    THEN window.output_directory
                                    ELSE NoneDir)]
         /\ UNCHANGED modal

\* a click on process_btn, which takes clicks while enabled and no dialog is open
ClickProcess ==
    /\ ~crashed
    /\ modal = <<>>
    /\ window.process_btn
    /\ Created < MaxRuns
    /\ StartProcessing
    /\ UNCHANGED <<queue, compared, last_finished>>
    /\ GuiFrame

\* the whole of start_comparison up to a dialog: the warning when a path is
\* missing, else set_audio_data(input_file_path, output_file_path), which loads both
\* files or reports the failure in a message box of its own
StartComparison ==
    IF window.input_file_path = <<>> \/ window.output_file_path = <<>>
    THEN /\ modal' = Append(modal, "QMessageBox")
         /\ UNCHANGED <<window, compared>>
    ELSE /\ compared' = << [before |-> window.input_file_path,
                            after |-> window.output_file_path,
                            made_from |-> IF window.output_file_path \in DOMAIN files
                                          THEN files[window.output_file_path]
                                          ELSE <<>>] >>
         /\ \E loaded \in BOOLEAN :
              IF loaded
              THEN /\ window' = log_message(
                                   log_message([window EXCEPT !.status_label = ST_COMPARED],
                                               LogLine(LOG_COMPARE_START, "", <<>>)),
                                   LogLine(LOG_COMPARE_DONE, "", <<>>))
                   /\ UNCHANGED modal
              ELSE /\ window' = log_message([window EXCEPT !.status_label = ST_ANALYZING],
                                             LogLine(LOG_COMPARE_START, "", <<>>))
                   /\ modal' = Append(modal, "set_audio_data.critical")

\* a click on compare_btn of the comparison GUI
ClickCompare ==
    /\ ~crashed
    /\ gui = "compare"
    /\ modal = <<>>
    /\ window.compare_btn
    /\ StartComparison
    /\ UNCHANGED <<workers, queue, last_finished>>
    /\ GuiFrame

\* the user closes the innermost message box; after the box of set_audio_data,
\* start_comparison goes on to its last lines
CloseMessageBox ==
    /\ ~crashed
    /\ TopModal \in {"QMessageBox", "start_processing.warning", "set_audio_data.critical"}
    /\ modal' = PopModal
    /\ window' = IF TopModal = "set_audio_data.critical"
                 THEN log_message([window EXCEPT !.status_label = ST_COMPARED],
                                  LogLine(LOG_COMPARE_DONE, "", <<>>))
                 ELSE window
    /\ UNCHANGED <<workers, queue, compared, last_finished>>
    /\ GuiFrame

\* the GUI thread's event loop (the main one or a dialog's) delivers the oldest
\* queued signal to the slot connected in start_processing
HandleSignal ==
    /\ ~crashed
    /\ queue # <<>>
    /\ LET e == Head(queue)
       IN  /\ queue' = Tail(queue)
           /\ window' =
                CASE e.sig = "progress_updated" -> update_progress(window, e.num)
                  [] e.sig = "status_updated" -> update_status(window, e.text)
                  [] e.sig = "finished_processing" -> on_processing_finished(window, e.path)
                  [] e.sig = "error_occurred" -> on_error_occurred(window, e.text)
           /\ modal' = IF e.sig \in TerminalSignals
                       THEN Append(modal, "QMessageBox")
                       ELSE modal
           /\ workers' = IF e.sig \in TerminalSignals
                         THEN [workers EXCEPT ![e.w] = Retired]
                         ELSE workers
           /\ last_finished' = IF e.sig = "finished_processing"
                               THEN e.path
                               ELSE last_finished
    /\ UNCHANGED compared
    /\ GuiFrame

\* start_processing overwrote worker_thread, the only reference to a worker whose
\* thread still runs: the QThread may be destroyed while running, which aborts
\* the process, at any moment until that thread ends.  With the process go its
\* threads, its window, its dialogs and its pending events
DestroyedWhileRunning ==
    /\ ~crashed
    /\ \E i \in WorkerIds : Running(i) /\ i # window.worker_thread
    /\ crashed' = TRUE
    /\ workers' = [i \in WorkerIds |->
                     IF Running(i) THEN [workers[i] EXCEPT !.pc = "killed"] ELSE workers[i]]
    /\ window' = InitWindow
    /\ modal' = <<>>
    /\ queue' = <<>>
    /\ UNCHANGED <<env, gui, ClearVoice, files, compared, last_finished, snr, demo>>

(***************************************************************************)
(* A GUI session.                                                          *)
(***************************************************************************)
NoFiles == [p \in {} |-> <<>>]

Idle == [pc |-> "idle"]

Init ==
    /\ env \in Sessions
    /\ gui \in {"basic", "compare"}
    /\ ClearVoice \in {"None", "class"}
    /\ window = InitWindow
    /\ modal = <<>>
    /\ workers = [i \in WorkerIds |-> Unborn]
    /\ queue = <<>>
    /\ files = NoFiles
    /\ compared = <<>>
    /\ crashed = FALSE
    /\ last_finished = <<>>
    /\ snr = Idle
    /\ demo = Idle

Next ==
    \/ SelectInputFile
    \/ SelectOutputDirectory
    \/ ClickProcess
    \/ ClickCompare
    \/ CloseMessageBox
    \/ HandleSignal
    \/ DestroyedWhileRunning
    \/ \E i \in WorkerIds : Run(i)

Spec == Init /\ [][Next]_vars

(***************************************************************************)
(* A session with fairness: a started thread goes on running (its external *)
(* calls return or raise), and the event loop of the GUI thread goes on     *)
(* delivering queued signals.  Nothing obliges the user to click.          *)
(***************************************************************************)
SpecLive ==
    /\ Init
    /\ [][Next]_vars
    /\ WF_vars(HandleSignal)
    /\ \A i \in WorkerIds : WF_vars(Run(i))

(***************************************************************************)
(* The worker on many paths: a session in which the dialogs have returned  *)
(* an input file and an output directory (or none), and in which the user  *)
(* clicks nothing but the start button.                                    *)
(***************************************************************************)
NoSession == [files |-> {}, dirs |-> {}]

InitWorker ==
    /\ env = NoSession
    /\ gui \in {"basic", "compare"}
    /\ ClearVoice \in {"None", "class"}
    /\ \E input_path \in WorkerInputs, dir_path \in WorkerDirs \cup {<<>>} :
         window = select_output_directory(select_input_file(InitWindow, input_path),
                                          dir_path)
    /\ modal = <<>>
    /\ workers = [i \in WorkerIds |-> Unborn]
    /\ queue = <<>>
    /\ files = NoFiles
    /\ compared = <<>>
    /\ crashed = FALSE
    /\ last_finished = <<>>
    /\ snr = Idle
    /\ demo = Idle

NextWorker ==
    \/ ClickProcess
    \/ CloseMessageBox
    \/ HandleSignal
    \/ \E i \in WorkerIds : Run(i)

SpecWorker == InitWorker /\ [][NextWorker]_vars

(***************************************************************************)
(* AudioAnalyzer.  Samples are small integers, so powers are exact.  A     *)
(* value passed as audio is a NumPy array, a Python list or None.          *)
(***************************************************************************)
Samples == {-1, 0, 1}

SeqsUpTo(S, n) == UNION {[1..k -> S] : k \in 0..n}

NdArray(data) == [kind |-> "ndarray", data |-> data]

AudioValues ==
    {NdArray(d) : d \in SeqsUpTo(Samples, MaxLen)}
      \cup {[kind |-> "list", data |-> <<>>], [kind |-> "list", data |-> <<1>>],
            [kind |-> "None", data |-> <<>>]}

\* sum of x[k]^2
RECURSIVE SumSq(_)
SumSq(x) == IF x = <<>> THEN 0 ELSE x[1] * x[1] + SumSq(Tail(x))

\* what calculate_snr returns: the int 0 of the except branch, float('inf'), nan,
\* or 10 * log10((signal / n) / (noise / n)), the means being taken over n samples
\* (a signal of 0 gives NumPy's -inf)
SnrZero == [kind |-> "0", signal |-> 0, noise |-> 0, n |-> 0]

SnrInf(n) == [kind |-> "inf", signal |-> 0, noise |-> 0, n |-> n]

SnrNan == [kind |-> "nan", signal |-> 0, noise |-> 0, n |-> 0]

SnrDb(signal, noise, n) == [kind |-> "10*log10", signal |-> signal, noise |-> noise, n |-> n]

\* the statements of the try block raise: len(None); list - list and list ** 2
\* (an array minus a list, or a list minus an array, is an array)
SnrRaises(clean_audio, noisy_audio) ==
    \/ clean_audio.kind # "ndarray"
    \/ noisy_audio.kind = "None"

\* AudioAnalyzer.calculate_snr; np.mean of an empty array is nan, and nan == 0 is False
calculate_snr(clean_audio, noisy_audio) ==
    IF SnrRaises(clean_audio, noisy_audio)
    THEN SnrZero
    ELSE LET min_len == Min(Len(clean_audio.data), Len(noisy_audio.data))
             clean == Upto(clean_audio.data, min_len)
             noisy == Upto(noisy_audio.data, min_len)
             noise == [k \in 1..min_len |-> noisy[k] - clean[k]]
             signal_power == SumSq(clean)
             noise_power == SumSq(noise)
         IN  IF min_len = 0 THEN SnrNan
             ELSE IF noise_power = 0 THEN SnrInf(min_len)
             ELSE SnrDb(signal_power, noise_power, min_len)

\* the lines of calculate_audio_metrics before the SNR raise: len(None) / sr,
\* a division by sr = 0, list ** 2, np.max of an empty array
MetricsRaiseBeforeSnr(original_audio, enhanced_audio, sr) ==
    \/ original_audio.kind # "ndarray"
    \/ enhanced_audio.kind # "ndarray"
    \/ sr = 0
    \/ original_audio.data = <<>>
    \/ enhanced_audio.data = <<>>

\* calculate_audio_metrics with the two arguments of calculate_snr exchanged
calculate_audio_metrics_Swapped(original_audio, enhanced_audio, sr) ==
    IF MetricsRaiseBeforeSnr(original_audio, enhanced_audio, sr)
    THEN [has |-> FALSE, snr_improvement |-> SnrZero]
    ELSE [has |-> TRUE, snr_improvement |-> calculate_snr(original_audio, enhanced_audio)]

\* AudioAnalyzer.calculate_audio_metrics, its key 'snr_improvement': has is whether
\* the returned dict holds the key (an exception before line 97 leaves it out)
calculate_audio_metrics(original_audio, enhanced_audio, sr) ==
    IF MetricsRaiseBeforeSnr(original_audio, enhanced_audio, sr)
    THEN [has |-> FALSE, snr_improvement |-> SnrZero]
    ELSE [has |-> TRUE, snr_improvement |-> calculate_snr(enhanced_audio, original_audio)]

NoMetrics == [has |-> FALSE, snr_improvement |-> SnrZero]

\* the harness holds two audio values and a sample rate, then calls one of the two
InitSnr ==
    /\ env = NoSession
    /\ gui = "compare"
    /\ ClearVoice = "class"
    /\ window = InitWindow
    /\ modal = <<>>
    /\ workers = [i \in WorkerIds |-> Unborn]
    /\ queue = <<>>
    /\ files = NoFiles
    /\ compared = <<>>
    /\ crashed = FALSE
    /\ last_finished = <<>>
    /\ \E a \in AudioValues, b \in AudioValues, sr \in {0, 1} :
         snr = [pc |-> "args", a |-> a, b |-> b, sr |-> sr,
                result |-> SnrZero, metrics |-> NoMetrics]
    /\ demo = Idle

SnrFrame ==
    UNCHANGED <<env, gui, ClearVoice, window, modal, workers, queue, files, compared,
                crashed, last_finished, demo>>

\* calculate_snr(a, b) is called, a as clean_audio and b as noisy_audio
CallSnr ==
    /\ snr.pc = "args"
    /\ snr' = [snr EXCEPT !.pc = "calculate_snr", !.result = calculate_snr(snr.a, snr.b)]
    /\ SnrFrame

\* calculate_audio_metrics(a, b, sr) is called, a as original_audio and b as
\* enhanced_audio
CallMetrics ==
    /\ snr.pc = "args"
    /\ snr' = [snr EXCEPT !.pc = "calculate_audio_metrics",
                          !.metrics = calculate_audio_metrics(snr.a, snr.b, snr.sr)]
    /\ SnrFrame

NextSnr == CallSnr \/ CallMetrics

SpecSnr == InitSnr /\ [][NextSnr]_vars

(***************************************************************************)
(* demo_se.py.  argv holds the command-line arguments after the script     *)
(* name, so len(sys.argv) is Len(argv) + 1.  An uncaught exception ends     *)
(* the interpreter with a traceback and status 1.                          *)
(***************************************************************************)
DemoArgs ==
    { <<"a", ".", "w">>,
      <<"/", "d", "/", "a", ".", "w">>,
      <<"d", "/", "a", ".">>,
      <<".", "h">> }

NewDemo(argv) ==
    [pc |-> "import", argv |-> argv, usage |-> FALSE, traceback |-> FALSE,
     status |-> -1, inferred |-> <<>>, written |-> <<>>]

InitDemo ==
    /\ env = NoSession
    /\ gui = "basic"
    /\ ClearVoice = "class"
    /\ window = InitWindow
    /\ modal = <<>>
    /\ workers = [i \in WorkerIds |-> Unborn]
    /\ queue = <<>>
    /\ files = NoFiles
    /\ compared = <<>>
    /\ crashed = FALSE
    /\ last_finished = <<>>
    /\ snr = Idle
    /\ \E argv \in SeqsUpTo(DemoArgs, MaxArgs) : demo = NewDemo(argv)

DemoFrame ==
    UNCHANGED <<env, gui, ClearVoice, window, modal, workers, queue, files, compared,
                crashed, last_finished, snr>>

\* an uncaught exception
DemoRaise == [demo EXCEPT !.pc = "exited", !.traceback = TRUE, !.status = 1]

\* line 1: from clearvoice import ClearVoice
DemoImport ==
    /\ demo.pc = "import"
    /\ \E ok \in BOOLEAN :
         demo' = IF ok THEN [demo EXCEPT !.pc = "construct"] ELSE DemoRaise
    /\ DemoFrame

\* lines 6-9: cv_se = ClearVoice(...)
DemoConstruct ==
    /\ demo.pc = "construct"
    /\ \E ok \in BOOLEAN :
         demo' = IF ok THEN [demo EXCEPT !.pc = "check"] ELSE DemoRaise
    /\ DemoFrame

\* lines 12-14: the usage line and sys.exit(1) unless len(sys.argv) = 2
DemoCheckArgs ==
    /\ demo.pc = "check"
    /\ demo' = IF Len(demo.argv) + 1 # 2
               THEN [demo EXCEPT !.pc = "exited", !.usage = TRUE, !.status = 1]
               ELSE [demo EXCEPT !.pc = "infer"]
    /\ DemoFrame

\* lines 17-21: cv_se(input_path = sys.argv[1], online_write = False)
DemoInfer ==
    /\ demo.pc = "infer"
    /\ \E ok \in BOOLEAN :
         demo' = IF ok
                 THEN [demo EXCEPT !.pc = "write", !.inferred = Append(@, demo.argv[1])]
                 ELSE [DemoRaise EXCEPT !.inferred = Append(@, demo.argv[1])]
    /\ DemoFrame

\* lines 24-28: the output path, cv_se.write, and the end of the script
DemoWrite ==
    /\ demo.pc = "write"
    /\ \E ok \in BOOLEAN :
         demo' = IF ok
                 THEN [demo EXCEPT !.pc = "exited", !.status = 0,
                                   !.written = Append(@, DemoOutputPath(demo.argv[1]))]
                 ELSE DemoRaise
    /\ DemoFrame

NextDemo == DemoImport \/ DemoConstruct \/ DemoCheckArgs \/ DemoInfer \/ DemoWrite

SpecDemo == InitDemo /\ [][NextDemo]_vars

(***************************************************************************)
(* Properties of one run of the worker, read off its trace.  The trace of  *)
(* a worker is kept until the GUI has handled its terminal signal.         *)
(***************************************************************************)
IsTerminal(e) == e.sig \in TerminalSignals

IsProgress(e) == e.sig = "progress_updated"

\* the worker ended run and the GUI has not handled its terminal signal yet
Ended(i) == workers[i].pc = "done" /\ ~workers[i].handled

\* the external call name is in trace t at position k, and returned
ReturnedAt(t, k, name) == t[k].sig = "returned" /\ t[k].text = name

\* the external call name returned somewhere among the first k - 1 events of t
ReturnedBefore(t, k, name) == \E j \in 1..(k - 1) : ReturnedAt(t, j, name)

AllReturned(t) ==
    \A name \in {"ClearVoice", "cv_se", "write"} : ReturnedBefore(t, Len(t) + 1, name)

IsPrefix(s, t) == Len(s) <= Len(t) /\ s = SubSeq(t, 1, Len(s))

\* C3: every execution of run emits exactly one terminal signal, as its last event:
\* finished_processing when model construction, inference and write all returned
\* (which needs the import to have succeeded), error_occurred otherwise; while run
\* is executing no terminal signal has been emitted.
C3_ExactlyOneTerminalSignal ==
    \A i \in WorkerIds :
        LET t == workers[i].trace
            term == SelectSeq(t, IsTerminal)
        IN  /\ Running(i) => term = <<>>
            /\ Ended(i) =>
                 /\ Len(term) = 1
                 /\ t[Len(t)] = term[1]
                 /\ (term[1].sig = "finished_processing") <=> AllReturned(t)
                 /\ (term[1].sig = "error_occurred") <=> ~AllReturned(t)

\* C3, witness: a run whose write raised has ended with error_occurred, and the
\* signal is queued for the GUI
C3_Witness_WriteRaised ==
    \E i \in WorkerIds :
        /\ Ended(i)
        /\ \E k \in DOMAIN workers[i].trace :
             workers[i].trace[k].sig = "raised" /\ workers[i].trace[k].text = "write"
        /\ queue # <<>>
        /\ queue[Len(queue)] = error_occurred(i, ERR_PROCESS)

\* C4: the path given to write has the file name <input stem> + '_enhanced' +
\* <input suffix>, stem and suffix being the two parts of the input's file name, in
\* the chosen output directory when one is set and else in the directory of the
\* input file; all runs of a session, which have the same input and directory,
\* write the same path.
C4_OutputPath ==
    /\ \A i \in WorkerIds : \A k \in DOMAIN workers[i].trace :
         LET e == workers[i].trace[k]
             input == window.input_file_path
         IN  (e.text = "write" /\ e.sig \in {"returned", "raised"}) =>
               /\ Basename(e.path) = PathStem(input) \o ENHANCED \o PathSuffix(input)
               /\ PathStem(input) \o PathSuffix(input) = Basename(input)
               /\ Dirname(e.path) = IF window.output_directory # <<>>
                                    THEN window.output_directory
                                    ELSE Dirname(input)
    /\ Cardinality(DOMAIN files) <= 1
    /\ \A p \in DOMAIN files : files[p] = window.input_file_path

\* C4, witness: with the output directory /o chosen, the input /d/a.b.w has been
\* written to /o/a.b_enhanced.w
C4_Witness_WrittenToChosenDir ==
    /\ window.input_file_path = <<"/", "d", "/", "a", ".", "b", ".", "w">>
    /\ window.output_directory = <<"/", "o">>
    /\ DOMAIN files = { <<"/", "o", "/", "a", ".", "b">> \o ENHANCED \o <<".", "w">> }

\* C10: the progress values of a run are a prefix of 20, 50, 80, 100; 20 comes
\* before model construction, 50 only after ClearVoice(...) returned, 80 only after
\* the inference returned, 100 only after write returned; a run that emitted
\* error_occurred emitted no 100, and a run whose import failed emitted no progress
\* and no status.
C10_ProgressSequence ==
    \A i \in WorkerIds :
        LET t == workers[i].trace
            progress == SelectSeq(t, IsProgress)
        IN  /\ IsPrefix([k \in DOMAIN progress |-> progress[k].num], <<20, 50, 80, 100>>)
            /\ \A k \in DOMAIN t :
                 /\ t[k].text = "ClearVoice" =>
                      \E j \in 1..(k - 1) : t[j] = progress_updated(i, 20)
                 /\ t[k] = progress_updated(i, 50) => ReturnedBefore(t, k, "ClearVoice")
                 /\ t[k] = progress_updated(i, 80) => ReturnedBefore(t, k, "cv_se")
                 /\ t[k] = progress_updated(i, 100) => ReturnedBefore(t, k, "write")
                 /\ t[k].sig = "error_occurred" =>
                      \A j \in DOMAIN t : t[j] # progress_updated(i, 100)
                 /\ t[k] = error_occurred(i, ERR_IMPORT) =>
                      \A j \in DOMAIN t :
                          t[j].sig \notin {"progress_updated", "status_updated"}

\* C10, witness: a run whose inference raised has ended having emitted the progress
\* values 20 and 50 and no more
C10_Witness_StoppedAtFifty ==
    \E i \in WorkerIds :
        LET progress == SelectSeq(workers[i].trace, IsProgress)
        IN  /\ Ended(i)
            /\ [k \in DOMAIN progress |-> progress[k].num] = <<20, 50>>
            /\ \E k \in DOMAIN workers[i].trace :
                 workers[i].trace[k] = Call(i, "cv_se", FALSE, <<>>)

(***************************************************************************)
(* Properties of a GUI session.                                            *)
(***************************************************************************)
\* worker i was started and its terminal signal has not been handled: its thread is
\* executing run, or has emitted the terminal signal that is still queued
Undelivered(i) == Running(i) \/ Ended(i)

\* C1: at most one started worker has not had its finished_processing or
\* error_occurred handled, so start_processing never starts a worker beside one.
C1_AtMostOneWorker ==
    Cardinality({i \in WorkerIds : Undelivered(i)}) <= 1

\* C9: process_btn is disabled in every state in which a started worker has not had
\* its terminal signal handled.
C9_ProcessBtnDisabledWhileRunning ==
    (\E i \in WorkerIds : Undelivered(i)) => ~window.process_btn

\* C2: the pair start_comparison passes to the visualisation is an input file and
\* the enhanced file a worker wrote from that very input file.
C2_ComparedPairMatches ==
    compared # <<>> => compared[1].made_from = compared[1].before

\* C5: in the comparison GUI, when compare_btn is enabled a finished_processing
\* signal has been handled, and output_file_path is non-empty and is the path of
\* the finished_processing signal handled last.  Nothing disables compare_btn, so
\* this also says that no step taken before the first finished_processing is
\* handled (a file selection, a start, an error) enables it.
C5_CompareBtnAfterFinished ==
    (gui = "compare" /\ window.compare_btn) =>
        /\ last_finished # <<>>
        /\ window.output_file_path # <<>>
        /\ window.output_file_path = last_finished

\* C5, witness: compare_btn is enabled after a second run, with another output
\* directory, has been handled, while the first run's file is on disk too
C5_Witness_SecondRunHandled ==
    /\ gui = "compare"
    /\ window.compare_btn
    /\ Cardinality(DOMAIN files) = 2
    /\ \A i \in WorkerIds : workers[i] = Retired

\* a step in which the GUI handles the terminal signal of worker i
HandlesTerminalOf(i) == ~workers[i].handled /\ workers'[i].handled

\* C6: every started worker has its terminal signal handled in the end, and the
\* step that handles it leaves the progress bar hidden, process_btn enabled and
\* the status label at "处理完成！" for finished_processing, "处理失败" for
\* error_occurred.
C6_TerminalSignalHandled ==
    /\ \A i \in WorkerIds : (workers[i].pc = "start") ~> workers[i].handled
    /\ [][\A i \in WorkerIds :
            HandlesTerminalOf(i) =>
                /\ ~window'.progress_visible
                /\ window'.process_btn
                /\ window'.status_label =
                     IF Head(queue).sig = "finished_processing" THEN ST_DONE ELSE ST_FAILED]_vars

(***************************************************************************)
(* Properties of AudioAnalyzer.                                            *)
(***************************************************************************)
\* the sum of f[k]^2 over k in 1..n
RECURSIVE Power(_, _)
Power(f, n) == IF n = 0 THEN 0 ELSE Power(f, n - 1) + f[n] * f[n]

\* C7: calculate_snr(clean, noisy) works on the first n samples of both, n the
\* smaller of the two lengths, with noise = noisy - clean: it returns +infinity
\* when the noise power is 0, else 10*log10(mean(clean^2) / mean(noise^2)) (nan for
\* n = 0), and the 0 of its except branch when a statement raises (clean is no
\* array, or noisy is None); the 'snr_improvement' that calculate_audio_metrics
\* reports is calculate_snr(enhanced, original).
C7_Snr ==
    /\ snr.pc = "calculate_snr" =>
         LET clean == snr.a.data
             noisy == snr.b.data
             n == IF Len(clean) <= Len(noisy) THEN Len(clean) ELSE Len(noisy)
             signal_power == Power(clean, n)
             noise_power == Power([k \in 1..n |-> noisy[k] - clean[k]], n)
         IN  IF snr.a.kind = "ndarray" /\ snr.b.kind # "None"
             THEN /\ (n > 0 /\ noise_power = 0) <=> snr.result.kind = "inf"
                  /\ (n > 0 /\ noise_power # 0) <=>
                       snr.result = SnrDb(signal_power, noise_power, n)
                  /\ n = 0 <=> snr.result.kind = "nan"
             ELSE snr.result = SnrZero
    /\ (snr.pc = "calculate_audio_metrics" /\ snr.metrics.has) =>
         /\ snr.metrics.snr_improvement = calculate_snr(snr.b, snr.a)
         /\ LET n == IF Len(snr.a.data) <= Len(snr.b.data)
                     THEN Len(snr.a.data) ELSE Len(snr.b.data)
                noise_power == Power([k \in 1..n |-> snr.a.data[k] - snr.b.data[k]], n)
            IN  noise_power # 0 =>
                  snr.metrics.snr_improvement = SnrDb(Power(snr.b.data, n), noise_power, n)

\* C7, witness: calculate_audio_metrics has reported an SNR whose signal power is
\* that of the enhanced signal's first sample, the original being shorter and
\* silent: original [0], enhanced [1, 1]
C7_Witness_EnhancedIsClean ==
    /\ snr.pc = "calculate_audio_metrics"
    /\ snr.a = NdArray(<<0>>)
    /\ snr.b = NdArray(<<1, 1>>)
    /\ snr.metrics.has
    /\ snr.metrics.snr_improvement = SnrDb(1, 1, 1)

(***************************************************************************)
(* Properties of demo_se.py.                                               *)
(***************************************************************************)
\* C8: an execution with a number of arguments other than one ends having printed
\* the usage line, with status 1; and at no point of it has an inference run or an
\* output file been written.
C8_UsageOnWrongArgCount ==
    Len(demo.argv) # 1 =>
        /\ demo.inferred = <<>>
        /\ demo.written = <<>>
        /\ demo.pc = "exited" => (demo.usage /\ demo.status = 1)

(***************************************************************************)
(* Further properties of one run of the worker.                            *)
(***************************************************************************)
IsCall(e) == e.sig \in {"returned", "raised"}

\* the names of the external calls of trace t, in the order they were made
CallsOf(t) ==
    LET calls == SelectSeq(t, IsCall)
    IN  [k \in DOMAIN calls |-> calls[k].text]

\* C11: finished_processing is emitted only after write has returned, and carries
\* the very path that was given to write in that run; the external calls of a run
\* are made in the order ClearVoice(...), cv_se(...), write, each only once and
\* only after the one before it returned.
C11_FinishedAfterWrite ==
    \A i \in WorkerIds :
        LET t == workers[i].trace
        IN  /\ \A k \in DOMAIN t :
                 t[k].sig = "finished_processing" =>
                     \E j \in 1..(k - 1) :
                         /\ ReturnedAt(t, j, "write")
                         /\ t[j].path = t[k].path
                         /\ \A h \in DOMAIN t :
                              (IsCall(t[h]) /\ t[h].text = "write") => h = j
            /\ IsPrefix(CallsOf(t), <<"ClearVoice", "cv_se", "write">>)
            /\ \A k \in DOMAIN t :
                 (IsCall(t[k]) /\ t[k].sig = "raised") =>
                     \A h \in (k + 1)..Len(t) : ~IsCall(t[h])

\* C11, witness: a run has ended with finished_processing carrying
\* /d/a_enhanced.w, the third of its three calls having been write to that path
C11_Witness_FinishedCarriesWrittenPath ==
    \E i \in WorkerIds :
        /\ Ended(i)
        /\ CallsOf(workers[i].trace) = <<"ClearVoice", "cv_se", "write">>
        /\ workers[i].trace[Len(workers[i].trace)] =
             finished_processing(i, <<"/", "d", "/", "a">> \o ENHANCED \o <<".", "w">>)

(***************************************************************************)
(* The worker and the script side by side: a GUI session as in SpecWorker  *)
(* and one execution of demo_se.py with one argument, which may be a       *)
(* relative path.                                                          *)
(***************************************************************************)
DemoInputs == DemoArgs \cup { <<"/", "d", "/", "a", ".", "b", ".", "w">>, <<"a">> }

InitOutputs ==
    /\ env = NoSession
    /\ gui \in {"basic", "compare"}
    /\ ClearVoice = "class"
    /\ \E input_path \in WorkerInputs, dir_path \in WorkerDirs \cup {<<>>} :
         window = select_output_directory(select_input_file(InitWindow, input_path),
                                          dir_path)
    /\ modal = <<>>
    /\ workers = [i \in WorkerIds |-> Unborn]
    /\ queue = <<>>
    /\ files = NoFiles
    /\ compared = <<>>
    /\ crashed = FALSE
    /\ last_finished = <<>>
    /\ snr = Idle
    /\ \E input_path \in DemoInputs : demo = NewDemo(<<input_path>>)

NextOutputs == NextWorker \/ NextDemo

SpecOutputs == InitOutputs /\ [][NextOutputs]_vars

\* C12: the path a run writes to is never the path it reads: neither the path the
\* worker computes, gives to write and reports, for any input and any output
\* directory (the input's own directory included), nor the path demo_se.py
\* computes and writes.
C12_OutputIsNotInput ==
    /\ \A i \in WorkerIds :
         /\ workers[i].pc \in {"write", "done"} /\ ~workers[i].handled
              /\ (\E k \in DOMAIN workers[i].trace :
                      ReturnedAt(workers[i].trace, k, "cv_se"))
              => workers[i].output_path # workers[i].input_path
         /\ \A k \in DOMAIN workers[i].trace :
              workers[i].trace[k].text = "write" \/ workers[i].trace[k].sig = "finished_processing"
                  => workers[i].trace[k].path # workers[i].input_path
    /\ \A p \in DOMAIN files : files[p] # p
    /\ demo.pc = "write" => DemoOutputPath(demo.argv[1]) # demo.argv[1]
    /\ \A k \in DOMAIN demo.written : demo.written[k] # demo.argv[1]

\* C12, witness: the worker has written the input /d/a.w, with its own directory
\* /d chosen as the output directory, and the script has written its argument
C12_Witness_SameDirectoryWritten ==
    /\ window.input_file_path = <<"/", "d", "/", "a", ".", "w">>
    /\ window.output_directory = <<"/", "d">>
    /\ DOMAIN files = { <<"/", "d", "/", "a">> \o ENHANCED \o <<".", "w">> }
    /\ demo.pc = "exited"
    /\ demo.written # <<>>

(***************************************************************************)
(* Further properties of a GUI session.                                    *)
(***************************************************************************)
\* C13: in every state in which process_btn is enabled input_file_path is
\* non-empty; so the warning of start_processing for an empty input is never
\* opened in a session, where start_processing runs on a click only.
C13_EnabledImpliesInput ==
    /\ window.process_btn => window.input_file_path # <<>>
    /\ \A k \in DOMAIN modal : modal[k] # "start_processing.warning"

\* C13, witness: process_btn is enabled again after a run that ended in an error
C13_Witness_EnabledAfterError ==
    /\ window.process_btn
    /\ window.status_label = ST_FAILED
    /\ window.worker_thread # 0
    /\ window.input_file_path # <<>>

(***************************************************************************)
(* A session in which no input file is ever chosen (the file dialog is     *)
(* only ever cancelled), the log is kept, and start_processing is called   *)
(* directly, as process_btn stays disabled.  input_file_path is empty in   *)
(* exactly the states of such a session: once a file is chosen it never    *)
(* is empty again.                                                         *)
(***************************************************************************)
NoInputSession == [files |-> {}, dirs |-> { <<"/", "o">>, <<"/", "p">> }]

\* a window whose log widget is kept
LogWindow ==
    [f \in DOMAIN InitWindow \cup {"log"} |-> IF f = "log" THEN <<>> ELSE InitWindow[f]]

InitNoInput ==
    /\ env = NoInputSession
    /\ gui \in {"basic", "compare"}
    /\ ClearVoice \in {"None", "class"}
    /\ window = LogWindow
    /\ modal = <<>>
    /\ workers = [i \in WorkerIds |-> Unborn]
    /\ queue = <<>>
    /\ files = NoFiles
    /\ compared = <<>>
    /\ crashed = FALSE
    /\ last_finished = <<>>
    /\ snr = Idle
    /\ demo = Idle

\* start_processing called with no click behind it, from the main event loop
CallStartProcessing ==
    /\ ~crashed
    /\ modal = <<>>
    /\ Created < MaxRuns
    /\ StartProcessing
    /\ UNCHANGED <<queue, compared, last_finished>>
    /\ GuiFrame

\* a click on the clear-log button of the basic GUI
ClearLog ==
    /\ ~crashed
    /\ gui = "basic"
    /\ modal = <<>>
    /\ window' = clear_log(window)
    /\ UNCHANGED <<modal, workers, queue, compared, last_finished>>
    /\ GuiFrame

NextNoInput ==
    \/ SelectInputFile
    \/ SelectOutputDirectory
    \/ CallStartProcessing
    \/ ClearLog
    \/ CloseMessageBox

SpecNoInput == InitNoInput /\ [][NextNoInput]_vars

\* C14: a call of start_processing while input_file_path is empty opens the
\* warning and changes nothing else: no worker is created or started, and
\* process_btn, the progress bar, the statistics panel and the log are as before.
C14_EmptyInputOnlyWarns ==
    [][(CallStartProcessing /\ window.input_file_path = <<>>) =>
          /\ modal' = Append(modal, "start_processing.warning")
          /\ workers' = workers
          /\ queue' = queue
          /\ window'.worker_thread = window.worker_thread
          /\ window'.process_btn = window.process_btn
          /\ window'.progress_visible = window.progress_visible
          /\ window'.progress_value = window.progress_value
          /\ window'.stats_visible = window.stats_visible
          /\ window'.log = window.log
          /\ window' = window]_vars

\* C14, witness: the warning is open, with an output directory chosen, its line
\* in the log, and no worker created
C14_Witness_WarningOpen ==
    /\ TopModal = "start_processing.warning"
    /\ window.input_file_path = <<>>
    /\ window.output_directory # <<>>
    /\ window.log # <<>>
    /\ Created = 0

====
